---- MODULE Spec2Model ----
(***************************************************************************)
(* Model of the cooperative-games library (src/cooperative_games).         *)
(*                                                                         *)
(* A game object is constructed from a contribution vector (TU game) or a  *)
(* weight vector and a quorum (weighted voting game); afterwards queries   *)
(* and value calculators are called on it.  The state holds the            *)
(* constructor arguments, the object's fields and the last call with its   *)
(* result.                                                                 *)
(*                                                                         *)
(* Numbers: payoffs and weights are integers.  A float result q is kept    *)
(* as the exact fraction <<num, den>>; den = 0 stands for the non-finite   *)
(* value (nan/inf) IEEE arithmetic gives for a division by zero.           *)
(***************************************************************************)
EXTENDS Integers, Sequences, FiniteSets, TLC

VARIABLES kind, arg, argQuorum, phase, err,
          players, coalitions, contributions, quorum,
          op, opArg, res

vars == <<kind, arg, argQuorum, phase, err,
          players, coalitions, contributions, quorum, op, opArg, res>>

game == <<players, coalitions, contributions, quorum>>

(***************************************************************************)
(* Bounds of the explored inputs.                                          *)
(***************************************************************************)
MaxLen == 7        \* longest payoff vector handed to Game(...)
MaxPayoff == 2     \* payoffs are drawn from -1..MaxPayoff
MaxPlayers == 3    \* longest weight vector handed to WeightedVotingGame(...)
MaxWeight == 2     \* weights are drawn from -1..MaxWeight
MaxQuorum == 4     \* quorums are drawn from -1..MaxQuorum
MaxX == 1          \* components of the vectors handed to is_in_core
MaxXLen == 3       \* longest vector handed to is_in_core
IntBits == 8       \* binary digits before the point of a carried float64
FracBits == 64     \* binary digits after the point of a carried float64

(***************************************************************************)
(* Python/numpy primitives.                                                *)
(***************************************************************************)
Range(s) == {s[k] : k \in DOMAIN s}

Min2(a, b) == IF a <= b THEN a ELSE b

Max2(a, b) == IF a >= b THEN a ELSE b

SetMax(S) == CHOOSE m \in S : \A y \in S : y <= m

\* max(list) of a non-empty list
SeqMax(s) == SetMax(Range(s))

RECURSIVE SumSeq(_)
SumSeq(s) == IF s = <<>> THEN 0 ELSE s[1] + SumSeq(Tail(s))

RECURSIVE Factorial(_)
Factorial(k) == IF k <= 0 THEN 1 ELSE k * Factorial(k - 1)

\* scipy.special.binom(n, k) for integers 0 <= k <= n (exact in that range)
RECURSIVE Binom(_, _)
Binom(n, k) ==
    IF k < 0 \/ k > n THEN 0
    ELSE IF k = 0 \/ k = n THEN 1
    ELSE Binom(n - 1, k - 1) + Binom(n - 1, k)

\* s[a:b] with 0 <= a
Slice(s, a, b) == SubSeq(s, a + 1, Min2(b, Len(s)))

\* truth value of a number in a boolean context
Truthy(x) == x # 0

\* np.log2(k) when it is an integer, -1 when it is not (k >= 1)
Log2Exact(k) ==
    IF \E e \in 0..k : 2^e = k THEN CHOOSE e \in 0..k : 2^e = k ELSE -1

\* "p in coalition"
In(p, c) == \E k \in DOMAIN c : c[k] = p

\* tuple(x for x in c if x != p)
RECURSIVE Without(_, _)
Without(c, p) ==
    IF c = <<>> THEN <<>>
    ELSE IF c[1] = p THEN Without(Tail(c), p)
    ELSE <<c[1]>> \o Without(Tail(c), p)

\* sorted(...) of a collection of distinct integers
RECURSIVE SortedSeq(_)
SortedSeq(S) ==
    IF S = {} THEN <<>>
    ELSE LET m == CHOOSE x \in S : \A y \in S : x <= y
         IN <<m>> \o SortedSeq(S \ {m})

\* tuple(sorted(C + (p,)))
SortedWith(c, p) == SortedSeq(Range(c) \cup {p})

(***************************************************************************)
(* BaseGame: the coalition universe.                                       *)
(***************************************************************************)
RECURSIVE PrependAll(_, _)
PrependAll(x, ss) ==
    IF ss = <<>> THEN <<>> ELSE <<(<<x>> \o ss[1])>> \o PrependAll(x, Tail(ss))

\* itertools.combinations(elements, r): r-subsequences in index order
RECURSIVE Combinations(_, _)
Combinations(elements, r) ==
    IF r = 0 THEN << <<>> >>
    ELSE IF Len(elements) < r THEN <<>>
    ELSE PrependAll(elements[1], Combinations(Tail(elements), r - 1))
            \o Combinations(Tail(elements), r)

\* chain.from_iterable(combinations(elements, r) for r in range(from, len + 1))
RECURSIVE ChainCombinations(_, _)
ChainCombinations(elements, r) ==
    IF r > Len(elements) THEN <<>>
    ELSE Combinations(elements, r) \o ChainCombinations(elements, r + 1)

\* variant: the chain starts at size 0, so the empty tuple is listed too
powerset_from_zero(elements) == ChainCombinations(elements, 0)

powerset(elements) == ChainCombinations(elements, 1)

init_coalitions(ps) == powerset(ps)

\* [i for i in range(1, num_players + 1)]
PlayerList(n) == [i \in 1..n |-> i]

RECURSIVE SelectLen(_, _)
SelectLen(cs, l) ==
    IF cs = <<>> THEN <<>>
    ELSE IF Len(cs[1]) = l THEN <<cs[1]>> \o SelectLen(Tail(cs), l)
    ELSE SelectLen(Tail(cs), l)

get_one_coalitions(cs) == SelectLen(cs, 1)

(***************************************************************************)
(* Game (TU game): construction checks and characteristic function.        *)
(***************************************************************************)
\* variant: only the first contribution is examined
AnyNegative_first_only(cs) == cs[1] < 0 /\ Truthy(cs[1])

\* any(c for c in contributions if c < 0)
AnyNegative(cs) == \E k \in DOMAIN cs : cs[k] < 0 /\ Truthy(cs[k])

\* the loop of __check_if_contributions_are_monotone from coalition size i on
RECURSIVE MonotoneFrom(_, _, _, _, _)
MonotoneFrom(cs, num_players, i, start_idx, max_contribs) ==
    IF i > num_players THEN TRUE
    ELSE LET end_idx == Binom(num_players, i) + start_idx
             contribs == Slice(cs, start_idx, end_idx)
             max_contrib == SeqMax(contribs)
         IN IF \E k \in DOMAIN max_contribs :
                   max_contribs[k] > max_contrib /\ Truthy(max_contribs[k])
            THEN FALSE
            ELSE MonotoneFrom(cs, num_players, i + 1, end_idx,
                              Append(max_contribs, max_contrib))

\* variant: the singleton block is not part of the comparison
check_monotone_skipping_singletons(cs, num_players) ==
    MonotoneFrom(cs, num_players, 2, Binom(num_players, 1), <<>>)

check_if_contributions_are_monotone(cs, num_players) ==
    MonotoneFrom(cs, num_players, 1, 0, <<>>)

\* variant: the payoffs are zipped one position late
TUCharacteristicFunction_shifted(cs, contribs) ==
    LET m == Min2(Len(cs), Len(contribs))
    IN [c \in {cs[k] : k \in 1..m} |->
            contribs[((SetMax({k \in 1..m : cs[k] = c})) % m) + 1]]

\* {coalition: contribution for coalition, contribution in zip(coalitions, contributions)}
TUCharacteristicFunction(cs, contribs) ==
    LET m == Min2(Len(cs), Len(contribs))
    IN [c \in {cs[k] : k \in 1..m} |->
            contribs[SetMax({k \in 1..m : cs[k] = c})]]

(***************************************************************************)
(* WeightedVotingGame: characteristic function and winning coalitions.     *)
(***************************************************************************)
RECURSIVE WeightSum(_, _)
WeightSum(c, weights) ==
    IF c = <<>> THEN 0 ELSE weights[c[1]] + WeightSum(Tail(c), weights)

\* variant: a coalition has to exceed the quorum strictly
WVGCharacteristicFunction_strict(cs, weights, q) ==
    [c \in Range(cs) |-> IF WeightSum(c, weights) > q THEN 1 ELSE 0]

WVGCharacteristicFunction(cs, weights, q) ==
    [c \in Range(cs) |-> IF WeightSum(c, weights) >= q THEN 1 ELSE 0]

RECURSIVE WinningFrom(_, _, _)
WinningFrom(cs, weights, q) ==
    IF cs = <<>> THEN <<>>
    ELSE IF WeightSum(cs[1], weights) >= q
         THEN <<cs[1]>> \o WinningFrom(Tail(cs), weights, q)
         ELSE WinningFrom(Tail(cs), weights, q)

get_winning_coalitions(cs, weights, q) == WinningFrom(cs, weights, q)

\* the characteristic function of the constructed game, whatever its kind
V == IF kind = "Game"
     THEN TUCharacteristicFunction(coalitions, contributions)
     ELSE WVGCharacteristicFunction(coalitions, contributions, quorum)

(***************************************************************************)
(* Float results as exact fractions <<num, den>>; den = 0 is non-finite.   *)
(***************************************************************************)
Finite(q) == q[2] # 0

FromInt(a) == <<a, 1>>

\* a / b in float arithmetic: a zero divisor gives nan or inf, no exception
FDiv(a, b) == <<a, b>>

\* k * q for an integer k
FScale(k, q) == IF Finite(q) THEN <<k * q[1], q[2]>> ELSE <<0, 0>>

\* a + q for an integer a
FAddInt(a, q) == IF Finite(q) THEN <<a * q[2] + q[1], q[2]>> ELSE <<0, 0>>

\* q equals the integer a
FEqualsInt(q, a) == Finite(q) /\ q[1] = a * q[2]

\* sum of a vector of fractions, as a fraction (finite entries only)
RECURSIVE FSum(_)
FSum(qs) ==
    IF qs = <<>> THEN <<0, 1>>
    ELSE LET rest == FSum(Tail(qs))
         IN <<qs[1][1] * rest[2] + rest[1] * qs[1][2], qs[1][2] * rest[2]>>

Vector(qs) == [type |-> "vector", value |-> qs]

Raised(e) == [type |-> "error", value |-> e]

(***************************************************************************)
(* Game: derived vectors and membership tests.                             *)
(***************************************************************************)
GrandCoalition(cs) == cs[Len(cs)]

\* variant: the value of the player's own coalition is subtracted
get_utopia_payoff_vector_own_coalition(v, cs, ps) ==
    LET N == GrandCoalition(cs)
    IN [i \in DOMAIN ps |-> v[N] - v[<<ps[i]>>]]

\* Game.get_utopia_payoff_vector
get_utopia_payoff_vector(v, cs, ps) ==
    LET N == GrandCoalition(cs)
    IN [i \in DOMAIN ps |->
          LET N_without_i == Without(N, ps[i])
              v_N_without_i == IF N_without_i \in DOMAIN v
                               THEN v[N_without_i] ELSE 0
          IN v[N] - v_N_without_i]

\* sum(M_j for index, M_j in enumerate(M) if (index + 1) != player and (index + 1) in S)
RECURSIVE OthersUtopiaSum(_, _, _, _)
OthersUtopiaSum(M, S, player, index) ==
    IF index > Len(M) THEN 0
    ELSE (IF index # player /\ In(index, S) THEN M[index] ELSE 0)
            + OthersUtopiaSum(M, S, player, index + 1)

\* variant: the player's own utopia payoff is subtracted as well
get_minimal_rights_vector_all_members(v, cs, ps) ==
    LET M == get_utopia_payoff_vector(v, cs, ps)
    IN [i \in DOMAIN ps |->
          SetMax({v[cs[k]] - OthersUtopiaSum(M, cs[k], 0, 1) :
                     k \in {h \in DOMAIN cs : In(ps[i], cs[h])}})]

\* Game.get_minimal_rights_vector
get_minimal_rights_vector(v, cs, ps) ==
    LET M == get_utopia_payoff_vector(v, cs, ps)
    IN [i \in DOMAIN ps |->
          SetMax({v[cs[k]] - OthersUtopiaSum(M, cs[k], ps[i], 1) :
                     k \in {h \in DOMAIN cs : In(ps[i], cs[h])}})]

\* sum(lb for j, lb in enumerate(lower_bounds) if j != i)
RECURSIVE SumExcept(_, _, _)
SumExcept(s, i, j) ==
    IF j > Len(s) THEN 0
    ELSE (IF j # i THEN s[j] ELSE 0) + SumExcept(s, i, j + 1)

\* variant: a player's upper bound subtracts the player's own lower bound too
get_core_bounds_all_lower_bounds(v, cs) ==
    LET ones == get_one_coalitions(cs)
        lower_bounds == [k \in DOMAIN ones |-> v[ones[k]]]
    IN [i \in DOMAIN lower_bounds |->
          <<lower_bounds[i], v[GrandCoalition(cs)] - SumSeq(lower_bounds)>>]

\* Game._get_core_bounds: a list of (lower, upper) pairs
get_core_bounds(v, cs) ==
    LET N == GrandCoalition(cs)
        ones == get_one_coalitions(cs)
        lower_bounds == [k \in DOMAIN ones |-> v[ones[k]]]
    IN [i \in DOMAIN lower_bounds |->
          <<lower_bounds[i], v[N] - SumExcept(lower_bounds, i, 1)>>]

\* variant: the upper bounds are not part of the test
is_in_core_lower_bounds_only(v, cs, x) ==
    LET bounds == get_core_bounds(v, cs)
        m == Min2(Len(x), Len(bounds))
    IN /\ \A k \in 1..m : bounds[k][1] <= x[k]
       /\ SumSeq(x) = v[GrandCoalition(cs)]

\* the return expression of Game.is_in_core
is_in_core(v, cs, x) ==
    LET bounds == get_core_bounds(v, cs)
        m == Min2(Len(x), Len(bounds))
    IN /\ \A k \in 1..m : bounds[k][1] <= x[k] /\ x[k] <= bounds[k][2]
       /\ SumSeq(x) = v[GrandCoalition(cs)]

(***************************************************************************)
(* Game.get_core_vertices and the linear programs it hands to linprog.     *)
(***************************************************************************)
\* variant: the one-player coalitions are not skipped
IntermediateCoalitions_with_singletons(cs, n) == SubSeq(cs, 1, Len(cs) - 1)

\* self.coalitions[n:-1]
IntermediateCoalitions(cs, n) == SubSeq(cs, n + 1, Len(cs) - 1)

DotProduct(a, x) == SumSeq([k \in DOMAIN a |-> a[k] * x[k]])

\* A_ub = [[-1 if (i + 1) in coalition else 0 for i in range(n)] for coalition in cols]
CoreA_ub(cs, n) ==
    LET cols == IntermediateCoalitions(cs, n)
    IN [r \in DOMAIN cols |-> [i \in 1..n |-> IF In(i, cols[r]) THEN -1 ELSE 0]]

\* b_ub = [v[c] for c in cols]
CoreB_ub(v, cs, n) ==
    LET cols == IntermediateCoalitions(cs, n)
    IN [r \in DOMAIN cols |-> v[cols[r]]]

\* variant: the new upper bounds are not reversed
CoreNewUbs_not_reversed(v, cs, n) ==
    LET b_ub == CoreB_ub(v, cs, n)
    IN [i \in 1..n |-> v[GrandCoalition(cs)] - b_ub[i]]

\* list(reversed([v[N] - b_ub[i] for i in range(n)])); needs len(b_ub) >= n
CoreNewUbs(v, cs, n) ==
    LET b_ub == CoreB_ub(v, cs, n)
    IN [i \in 1..n |-> v[GrandCoalition(cs)] - b_ub[n + 1 - i]]

\* the bounds get_core_vertices hands to linprog
CoreBounds(v, cs, n) ==
    LET initial == get_core_bounds(v, cs)
        new_ubs == CoreNewUbs(v, cs, n)
        new_lbs == [i \in 1..n |->
                      Max2(initial[i][1],
                           v[GrandCoalition(cs)] - SumExcept(new_ubs, i, 1))]
    IN [i \in 1..n |-> <<new_lbs[i], new_ubs[i]>>]

\* the objectives one player i contributes in _get_maximization_coefficients
PlayerCoefficients(v, cs, bounds, i) ==
    LET n == Len(bounds)
        lbs == [j \in 1..n |-> bounds[j][1]]
        remainder == v[GrandCoalition(cs)] - bounds[i][2] - SumExcept(lbs, i, 1)
        current_max_num == -1 - 1
        other_players == SortedSeq((1..n) \ {i})
    IN IF remainder = 0
       THEN << [j \in 1..n |-> IF j = i THEN -1 ELSE 0] >>
       ELSE [k \in DOMAIN other_players |->
               [p \in 1..n |->
                  IF p = i THEN current_max_num
                  ELSE IF p = other_players[k] THEN 0
                  ELSE current_max_num + 1]]

RECURSIVE CoefficientsFrom(_, _, _, _)
CoefficientsFrom(v, cs, bounds, i) ==
    IF i > Len(bounds) THEN <<>>
    ELSE PlayerCoefficients(v, cs, bounds, i)
            \o CoefficientsFrom(v, cs, bounds, i + 1)

\* Game._get_maximization_coefficients
get_maximization_coefficients(v, cs, bounds) == CoefficientsFrom(v, cs, bounds, 1)

\* integer points of the box the bounds describe
RECURSIVE BoxPoints(_, _)
BoxPoints(bounds, k) ==
    IF k > Len(bounds) THEN { <<>> }
    ELSE { <<a>> \o t : a \in bounds[k][1]..bounds[k][2],
                        t \in BoxPoints(bounds, k + 1) }

\* the points that satisfy the constraints handed to linprog
LPFeasible(A_eq, b_eq, A_ub, b_ub, bounds) ==
    { x \in BoxPoints(bounds, 1) :
         /\ \A r \in DOMAIN A_eq : DotProduct(A_eq[r], x) = b_eq[r]
         /\ \A r \in DOMAIN A_ub : DotProduct(A_ub[r], x) <= b_ub[r] }

\* linprog(c, ...).x: a point minimising c . x over the feasible points.
\* All data are integers and the constraint rows are 0/1/-1 rows, so the
\* optimal vertices are integer points; the solver may return any of them.
LinprogSolutions(c, A_eq, b_eq, A_ub, b_ub, bounds) ==
    LET F == LPFeasible(A_eq, b_eq, A_ub, b_ub, bounds)
    IN { x \in F : \A y \in F : DotProduct(c, x) <= DotProduct(c, y) }

\* rows a and b of equal length in lexicographic order
RowBefore(a, b) ==
    \E k \in DOMAIN a : a[k] < b[k] /\ \A h \in 1..(k - 1) : a[h] = b[h]

\* np.unique(rows, axis=0): the distinct rows in lexicographic order
RECURSIVE UniqueRows(_)
UniqueRows(S) ==
    IF S = {} THEN <<>>
    ELSE LET m == CHOOSE x \in S : \A y \in S \ {x} : RowBefore(x, y)
         IN <<m>> \o UniqueRows(S \ {m})

\* the sets of rows the LPs from the k-th objective on can produce
RECURSIVE VertexChoices(_, _, _, _, _, _, _)
VertexChoices(C, k, A_eq, b_eq, A_ub, b_ub, bounds) ==
    IF k > Len(C) THEN { {} }
    ELSE { {x} \cup R :
             x \in LinprogSolutions(C[k], A_eq, b_eq, A_ub, b_ub, bounds),
             R \in VertexChoices(C, k + 1, A_eq, b_eq, A_ub, b_ub, bounds) }

\* the results Game.get_core_vertices can return; empty when an LP has no
\* solution (linprog(...).x is None and np.round fails)
CoreVertexResults(v, cs, ps) ==
    LET n == Len(ps)
        A_eq == << [i \in 1..n |-> 1] >>
        b_eq == << v[GrandCoalition(cs)] >>
        A_ub == CoreA_ub(cs, n)
        b_ub == CoreB_ub(v, cs, n)
        bounds == CoreBounds(v, cs, n)
        C == get_maximization_coefficients(v, cs, bounds)
    IN { UniqueRows(R) : R \in VertexChoices(C, 1, A_eq, b_eq, A_ub, b_ub, bounds) }

(***************************************************************************)
(* Value calculators (indices/power_values.py).                            *)
(***************************************************************************)
\* [coalition for coalition in game.coalitions if player not in coalition]
RECURSIVE CoalitionsWithout(_, _)
CoalitionsWithout(cs, player) ==
    IF cs = <<>> THEN <<>>
    ELSE IF In(player, cs[1]) THEN CoalitionsWithout(Tail(cs), player)
    ELSE <<cs[1]>> \o CoalitionsWithout(Tail(cs), player)

\* the loop body of ShapleyValue.compute summed over the coalitions Cs
RECURSIVE ShapleyTerms(_, _, _, _)
ShapleyTerms(v, n, player, Cs) ==
    IF Cs = <<>> THEN 0
    ELSE LET C == Cs[1]
             C_len == Len(C)
             C_len_factorial == Factorial(C_len)
             complement_factorial == Factorial(n - C_len - 1)
             pivot_term == v[SortedWith(C, player)] - v[C]
         IN C_len_factorial * complement_factorial * pivot_term
               + ShapleyTerms(v, n, player, Tail(Cs))

\* variant: the singleton term carries the weight 1 instead of (n - 1)!
ShapleyNumerator_unweighted_singleton(v, cs, n, player) ==
    v[<<player>>] + ShapleyTerms(v, n, player, CoalitionsWithout(cs, player))

\* shapley_value before the division by n!
ShapleyNumerator(v, cs, n, player) ==
    v[<<player>>] * Factorial(n - 1)
       + ShapleyTerms(v, n, player, CoalitionsWithout(cs, player))

\* ShapleyValue.compute
ShapleyValue(v, cs, ps) ==
    LET n == Len(ps)
        factorial_n == Factorial(n)
    IN [i \in DOMAIN ps |-> FDiv(ShapleyNumerator(v, cs, n, ps[i]), factorial_n)]

RECURSIVE MarginalTerms(_, _, _)
MarginalTerms(v, player, Cs) ==
    IF Cs = <<>> THEN 0
    ELSE v[SortedWith(Cs[1], player)] - v[Cs[1]]
            + MarginalTerms(v, player, Tail(Cs))

\* BanzhafValue.__marginal_contributions_sum
marginal_contributions_sum(v, cs, ps) ==
    [i \in DOMAIN ps |->
        v[<<ps[i]>>] + MarginalTerms(v, ps[i], CoalitionsWithout(cs, ps[i]))]

\* BanzhafValue.__K
BanzhafK(v, cs, ps) ==
    FDiv(v[GrandCoalition(cs)], SumSeq(marginal_contributions_sum(v, cs, ps)))

\* BanzhafValue.compute
BanzhafValue(v, cs, ps, normalized) ==
    LET K == IF normalized THEN BanzhafK(v, cs, ps)
             ELSE FDiv(1, 2^(Len(ps) - 1))
        marg_sums == marginal_contributions_sum(v, cs, ps)
    IN [i \in DOMAIN marg_sums |-> FScale(marg_sums[i], K)]

\* GatelyPoint.compute
GatelyPoint(v, cs, ps) ==
    LET N == GrandCoalition(cs)
        M == get_utopia_payoff_vector(v, cs, ps)
        ones == get_one_coalitions(cs)
    IN IF Len(ps) = 1 THEN << FromInt(v[<<ps[1]>>]) >>
       ELSE [i \in DOMAIN ps |->
               LET v_i == v[<<ps[i]>>]
                   M_i == M[ps[i]]
                   sum_v_j == SumSeq([k \in DOMAIN ones |-> v[ones[k]]])
                   N_one_coalitions_diff == v[N] - sum_v_j
                   player_loss == M_i - v_i
                   common_loss == SumSeq(M) - sum_v_j
               IN FAddInt(v_i, FScale(N_one_coalitions_diff,
                                      FDiv(player_loss, common_loss)))]

\* the coefficient and the constant of the equation TauValue.compute solves
TauEquation(v, cs, ps) ==
    LET N == GrandCoalition(cs)
        m == get_minimal_rights_vector(v, cs, ps)
        M == get_utopia_payoff_vector(v, cs, ps)
        sum_m == SumSeq(m)
        sum_M == SumSeq(M)
    IN IF sum_m = 0 THEN <<sum_M, v[N]>>
       ELSE IF sum_M = 0 THEN <<sum_m, v[N]>>
       ELSE <<sum_m - sum_M, v[N] - sum_M>>

\* TauValue.compute; np.linalg.solve raises on a zero coefficient
TauValue(v, cs, ps) ==
    IF Len(ps) = 1 THEN Vector(<< FromInt(v[<<ps[1]>>]) >>)
    ELSE LET m == get_minimal_rights_vector(v, cs, ps)
             M == get_utopia_payoff_vector(v, cs, ps)
             M_diff == TauEquation(v, cs, ps)[1]
             constant_diff == TauEquation(v, cs, ps)[2]
         IN IF M_diff = 0 THEN Raised("LinAlgError")
            ELSE LET alpha == FDiv(constant_diff, M_diff)
                 IN Vector([i \in DOMAIN m |->
                              FAddInt(m[i], FScale(M[i] - m[i], alpha))])

(***************************************************************************)
(* Game: imputation set and marginal contributions.                        *)
(***************************************************************************)
\* variant: Pareto efficiency is not part of the test
is_in_imputation_set_rational_only(v, cs, x) ==
    LET ones == get_one_coalitions(cs)
        v_one_coalitions == [k \in DOMAIN ones |-> v[ones[k]]]
        m == Min2(Len(x), Len(v_one_coalitions))
    IN \A k \in 1..m : v_one_coalitions[k] <= x[k]

\* the return expression of Game.is_in_imputation_set
is_in_imputation_set(v, cs, x) ==
    LET ones == get_one_coalitions(cs)
        v_one_coalitions == [k \in DOMAIN ones |-> v[ones[k]]]
        m == Min2(Len(x), Len(v_one_coalitions))
    IN /\ \A k \in 1..m : v_one_coalitions[k] <= x[k]
       /\ SumSeq(x) = v[GrandCoalition(cs)]

\* the rows X[i] of Game.get_imputation_vertices before np.unique
ImputationRows(v, cs) ==
    LET bounds == get_core_bounds(v, cs)
    IN [i \in DOMAIN bounds |->
          [j \in DOMAIN bounds |-> IF i = j THEN bounds[j][2] ELSE bounds[j][1]]]

\* variant: the rows are returned as computed, duplicates included
get_imputation_vertices_with_duplicates(v, cs, ps) ==
    IF Len(ps) = 1 THEN << << v[<<1>>] >> >>
    ELSE ImputationRows(v, cs)

\* Game.get_imputation_vertices
get_imputation_vertices(v, cs, ps) ==
    IF Len(ps) = 1 THEN << << v[<<1>>] >> >>
    ELSE UniqueRows(Range(ImputationRows(v, cs)))

\* Game.get_marginal_contribution
get_marginal_contribution(v, coalition, player) ==
    IF coalition = <<>> THEN Raised("ValueError")
    ELSE IF ~Truthy(player) THEN Raised("ValueError")
    ELSE IF ~In(player, coalition) THEN Raised("ValueError")
    ELSE IF coalition \notin DOMAIN v THEN Raised("KeyError")
    ELSE IF Len(coalition) = 1 THEN [type |-> "number", value |-> v[coalition]]
    ELSE LET coalition_without_player == Without(coalition, player)
         IN IF coalition_without_player \notin DOMAIN v THEN Raised("KeyError")
            ELSE [type |-> "number",
                  value |-> v[coalition] - v[coalition_without_player]]

(***************************************************************************)
(* WeightedVotingGame: pivot players, minimal and shift-minimal winning    *)
(* coalitions, preference between players.                                 *)
(***************************************************************************)
\* [player for player in coalition if weight(coalition) - weight(player) < quorum]
RECURSIVE PivotsIn(_, _, _, _)
PivotsIn(members, coalition, weights, q) ==
    IF members = <<>> THEN <<>>
    ELSE IF WeightSum(coalition, weights) - weights[members[1]] < q
         THEN <<members[1]>> \o PivotsIn(Tail(members), coalition, weights, q)
         ELSE PivotsIn(Tail(members), coalition, weights, q)

\* variant: a player whose removal leaves exactly the quorum counts as pivot
get_pivot_players_at_most(cs, weights, q) ==
    LET winning_coalitions == get_winning_coalitions(cs, weights, q)
    IN [k \in DOMAIN winning_coalitions |->
          << winning_coalitions[k],
             SelectSeq(winning_coalitions[k],
                       LAMBDA player :
                          WeightSum(winning_coalitions[k], weights)
                             - weights[player] <= q) >>]

\* WeightedVotingGame.get_pivot_players(all_coalitions=False): the items of
\* the returned dict, in insertion order, as <<coalition, pivot players>>
get_pivot_players(cs, weights, q) ==
    LET winning_coalitions == get_winning_coalitions(cs, weights, q)
    IN [k \in DOMAIN winning_coalitions |->
          << winning_coalitions[k],
             PivotsIn(winning_coalitions[k], winning_coalitions[k], weights, q) >>]

RECURSIVE SelfPivotal(_)
SelfPivotal(items) ==
    IF items = <<>> THEN <<>>
    ELSE IF items[1][1] = items[1][2]
         THEN <<items[1][1]>> \o SelfPivotal(Tail(items))
         ELSE SelfPivotal(Tail(items))

\* WeightedVotingGame.get_minimal_winning_coalitions
get_minimal_winning_coalitions(cs, weights, q) ==
    SelfPivotal(get_pivot_players(cs, weights, q))

\* the value standing for None, which is no player id
NoPreference == 0

\* [s for s in coalitions[:-1] if i not in s and j not in s]
PreferenceTestSets(cs, i, j) ==
    {cs[k] : k \in {h \in 1..(Len(cs) - 1) : ~In(i, cs[h]) /\ ~In(j, cs[h])}}

\* condition_one_met at the end of the first loop of preferred_player
ConditionOne(cs, weights, q, i, j) ==
    LET W == Range(get_winning_coalitions(cs, weights, q))
    IN ~\E s \in PreferenceTestSets(cs, i, j) :
           SortedWith(s, j) \in W /\ SortedWith(s, i) \notin W

\* condition_two_met at the end of the second loop of preferred_player
ConditionTwo(cs, weights, q, i, j) ==
    LET W == Range(get_winning_coalitions(cs, weights, q))
    IN \E t \in PreferenceTestSets(cs, i, j) :
           SortedWith(t, j) \notin W /\ SortedWith(t, i) \in W

\* variant: the first player is returned when neither condition holds
preferred_player_first_when_neither(cs, weights, q, i, j, prefer_by_weight) ==
    LET condition_one_met == ConditionOne(cs, weights, q, i, j)
        condition_two_met == ConditionTwo(cs, weights, q, i, j)
    IN IF condition_one_met /\ condition_two_met THEN i
       ELSE IF prefer_by_weight /\ condition_one_met /\ ~condition_two_met
       THEN IF weights[i] > weights[j] THEN i
            ELSE IF weights[j] > weights[i] THEN j
            ELSE NoPreference
       ELSE IF ~condition_one_met /\ ~condition_two_met THEN i
       ELSE NoPreference

\* WeightedVotingGame.preferred_player for two players of the game
preferred_player(cs, weights, q, i, j, prefer_by_weight) ==
    LET condition_one_met == ConditionOne(cs, weights, q, i, j)
        condition_two_met == ConditionTwo(cs, weights, q, i, j)
    IN IF condition_one_met /\ condition_two_met THEN i
       ELSE IF prefer_by_weight /\ condition_one_met /\ ~condition_two_met
       THEN IF weights[i] > weights[j] THEN i
            ELSE IF weights[j] > weights[i] THEN j
            ELSE NoPreference
       ELSE IF ~condition_one_met /\ ~condition_two_met THEN j
       ELSE NoPreference

\* set(sum(W_m, ())): the players occurring in some minimal winning coalition
UniquePivotPlayers(W_m) == UNION {Range(W_m[k]) : k \in DOMAIN W_m}

\* is_condition_met after the loops over i and j for the coalition S
ShiftConditionMet(cs, weights, q, W_m, S) ==
    ~\E i \in Range(S) :
        \E j \in {player \in UniquePivotPlayers(W_m) :
                     /\ ~In(player, S)
                     /\ preferred_player(cs, weights, q, i, player, TRUE) = i} :
           SortedWith(Without(S, i), j) \in Range(W_m)

RECURSIVE ShiftFilter(_, _, _, _, _)
ShiftFilter(cs, weights, q, W_m, rest) ==
    IF rest = <<>> THEN <<>>
    ELSE IF ShiftConditionMet(cs, weights, q, W_m, rest[1])
         THEN <<rest[1]>> \o ShiftFilter(cs, weights, q, W_m, Tail(rest))
         ELSE ShiftFilter(cs, weights, q, W_m, Tail(rest))

\* variant: every member counts as preferred to every non-member
get_shift_winning_coalitions_any_swap(cs, weights, q) ==
    LET W_m == get_minimal_winning_coalitions(cs, weights, q)
    IN SelectSeq(W_m,
          LAMBDA S : ~\E i \in Range(S) :
                        \E j \in UniquePivotPlayers(W_m) \ Range(S) :
                           SortedWith(Without(S, i), j) \in Range(W_m))

\* WeightedVotingGame.get_shift_winning_coalitions
get_shift_winning_coalitions(cs, weights, q) ==
    LET W_m == get_minimal_winning_coalitions(cs, weights, q)
    IN ShiftFilter(cs, weights, q, W_m, W_m)

(***************************************************************************)
(* Game: convexity and additivity.                                         *)
(***************************************************************************)
\* v = self.characteristic_function().copy(); v[tuple()] = 0
WithEmptyCoalition(v) ==
    [c \in (DOMAIN v) \cup {<<>>} |-> IF c = <<>> THEN 0 ELSE v[c]]

\* the pairs the two loops visit: C = coalitions[i], D in coalitions[i:]
LoopPairs(cs) == {<<i, k>> \in (DOMAIN cs) \X (DOMAIN cs) : i <= k}

\* variant: pairs of disjoint coalitions are not compared
is_convex_overlapping_only(v, cs) ==
    LET v0 == WithEmptyCoalition(v)
    IN \A pair \in LoopPairs(cs) :
          LET C == cs[pair[1]]
              D == cs[pair[2]]
              C_union_D == SortedSeq(Range(C) \cup Range(D))
              C_intersection_D == SortedSeq(Range(C) \cap Range(D))
          IN C_intersection_D = <<>> \/
             ~(v0[C_union_D] + v0[C_intersection_D] < v0[C] + v0[D])

\* Game.is_convex
is_convex(v, cs) ==
    LET v0 == WithEmptyCoalition(v)
    IN \A pair \in LoopPairs(cs) :
          LET C == cs[pair[1]]
              D == cs[pair[2]]
              C_union_D == SortedSeq(Range(C) \cup Range(D))
              C_intersection_D == SortedSeq(Range(C) \cap Range(D))
          IN ~(v0[C_union_D] + v0[C_intersection_D] < v0[C] + v0[D])

\* variant: overlapping pairs are compared as well
is_additive_all_pairs(v, cs) ==
    LET v0 == WithEmptyCoalition(v)
    IN \A pair \in LoopPairs(cs) :
          LET A == cs[pair[1]]
              B == cs[pair[2]]
              A_union_B == SortedSeq(Range(A) \cup Range(B))
          IN ~(v0[A] + v0[B] # v0[A_union_B])

\* Game.is_additive
is_additive(v, cs) ==
    LET v0 == WithEmptyCoalition(v)
    IN \A pair \in LoopPairs(cs) :
          LET A == cs[pair[1]]
              B == cs[pair[2]]
              A_intersection_B == Range(A) \cap Range(B)
              A_union_B == SortedSeq(Range(A) \cup Range(B))
          IN A_intersection_B # {} \/ ~(v0[A] + v0[B] # v0[A_union_B])

(***************************************************************************)
(* numpy float64 arithmetic (IEEE 754 binary64, round to nearest, ties to  *)
(* even) on the values the calculators produce.  A number is a sign and a  *)
(* magnitude written in binary with IntBits digits before and FracBits     *)
(* digits after the point; every float64 of the explored games fits.       *)
(***************************************************************************)
\* significant binary digits of a float64 (np.zeros default dtype)
Float64Precision == 53

\* the w binary digits of a, most significant first, for 0 <= a < 2^30
NatBits(a, w) ==
    [k \in 1..w |-> IF w - k >= 30 THEN 0 ELSE (a \div 2^(w - k)) % 2]

\* 2^j modulo d
RECURSIVE Pow2Mod(_, _)
Pow2Mod(j, d) == IF j = 0 THEN 1 % d ELSE (2 * Pow2Mod(j - 1, d)) % d

\* the remainder left after k binary digits of r / d, for 0 <= r < d
RemainderAfter(r, d, k) == (r * Pow2Mod(k, d)) % d

\* the first k binary digits of r / d after the point, for 0 <= r < d
QuotientBits(r, d, k) ==
    [j \in 1..k |-> (2 * RemainderAfter(r, d, j - 1)) \div d]

\* the number written by the binary digits s[lo..hi]
RECURSIVE BitsToNat(_, _, _)
BitsToNat(s, lo, hi) ==
    IF hi < lo THEN 0 ELSE 2 * BitsToNat(s, lo, hi - 1) + s[hi]

\* digits added at a time, few enough for the partial sums to stay small
ChunkBits == Float64Precision \div 2

\* a + b + carry, digit sequences of equal length, the overflow dropped
RECURSIVE AddChunks(_, _, _)
AddChunks(a, b, carry) ==
    IF Len(a) = 0 THEN <<>>
    ELSE LET n == Len(a)
             lo == IF n > ChunkBits THEN n - ChunkBits + 1 ELSE 1
             w == n - lo + 1
             sum == BitsToNat(a, lo, n) + BitsToNat(b, lo, n)
                       + carry
         IN AddChunks(SubSeq(a, 1, lo - 1), SubSeq(b, 1, lo - 1), sum \div 2^w)
               \o NatBits(sum % 2^w, w)

AddBits(a, b) == AddChunks(a, b, 0)

\* a - b - borrow, digit sequences of equal length
RECURSIVE SubChunks(_, _, _)
SubChunks(a, b, borrow) ==
    IF Len(a) = 0 THEN <<>>
    ELSE LET n == Len(a)
             lo == IF n > ChunkBits THEN n - ChunkBits + 1 ELSE 1
             w == n - lo + 1
             diff == BitsToNat(a, lo, n) - BitsToNat(b, lo, n)
                        - borrow
         IN SubChunks(SubSeq(a, 1, lo - 1), SubSeq(b, 1, lo - 1),
                      IF diff < 0 THEN 1 ELSE 0)
               \o NatBits(IF diff < 0 THEN diff + 2^w ELSE diff, w)

\* a - b for magnitudes a >= b
SubBits(a, b) == SubChunks(a, b, 0)

LessBits(a, b) ==
    \E k \in DOMAIN a : a[k] < b[k] /\ \A h \in 1..(k - 1) : a[h] = b[h]

ZeroBits(a) == \A k \in DOMAIN a : a[k] = 0

\* round a magnitude to Float64Precision significant digits, ties to even;
\* sticky tells that digits beyond the written ones are not all zero
RoundBits(a, sticky) ==
    IF ZeroBits(a) THEN a
    ELSE LET first == CHOOSE k \in DOMAIN a :
                         a[k] = 1 /\ \A h \in 1..(k - 1) : a[h] = 0
             last == first + Float64Precision - 1
         IN IF last >= Len(a) THEN a
            ELSE LET kept == [k \in DOMAIN a |-> IF k <= last THEN a[k] ELSE 0]
                     rest == sticky \/ \E k \in (last + 2)..Len(a) : a[k] = 1
                     up == a[last + 1] = 1 /\ (rest \/ a[last] = 1)
                     ulp == [k \in DOMAIN a |-> IF k = last THEN 1 ELSE 0]
                 IN IF up THEN AddBits(kept, ulp) ELSE kept

\* float(a) for an integer a
Float64FromInt(a) ==
    [neg |-> a < 0,
     bits |-> NatBits(IF a < 0 THEN -a ELSE a, IntBits) \o NatBits(0, FracBits)]

\* np.float64(s) / d for integers s and d > 0
Float64Div(s, d) ==
    LET mag == IF s < 0 THEN -s ELSE s
    IN [neg |-> s < 0,
        bits |-> RoundBits(NatBits(mag \div d, IntBits)
                              \o QuotientBits(mag % d, d, FracBits),
                           RemainderAfter(mag % d, d, FracBits) # 0)]

\* x + y in float64
Float64Add(x, y) ==
    IF x.neg = y.neg
    THEN [neg |-> x.neg, bits |-> RoundBits(AddBits(x.bits, y.bits), FALSE)]
    ELSE IF x.bits = y.bits THEN Float64FromInt(0)
    ELSE IF LessBits(x.bits, y.bits)
    THEN [neg |-> y.neg, bits |-> RoundBits(SubBits(y.bits, x.bits), FALSE)]
    ELSE [neg |-> x.neg, bits |-> RoundBits(SubBits(x.bits, y.bits), FALSE)]

\* x <= y in float64
Float64LessEq(x, y) ==
    IF ZeroBits(x.bits) /\ ZeroBits(y.bits) THEN TRUE
    ELSE IF x.neg # y.neg THEN x.neg
    ELSE IF x.neg THEN ~LessBits(x.bits, y.bits)
    ELSE ~LessBits(y.bits, x.bits)

Float64Equal(x, y) == Float64LessEq(x, y) /\ Float64LessEq(y, x)

\* the builtin sum(x): 0 + x[0] + x[1] + ..., each addition rounded
RECURSIVE Float64SumFrom(_, _)
Float64SumFrom(acc, xs) ==
    IF xs = <<>> THEN acc
    ELSE Float64SumFrom(Float64Add(acc, xs[1]), Tail(xs))

\* the float64 array ShapleyValue.compute returns
ShapleyValueFloat64(v, cs, ps) ==
    LET n == Len(ps)
        factorial_n == Factorial(n)
    IN [i \in DOMAIN ps |->
          Float64Div(ShapleyNumerator(v, cs, n, ps[i]), factorial_n)]

\* the return expression of Game.is_in_imputation_set for a float64 array x
\* of the players' length
is_in_imputation_set_float64(v, cs, x) ==
    LET ones == get_one_coalitions(cs)
        v_one_coalitions == [k \in DOMAIN ones |-> v[ones[k]]]
    IN /\ \A k \in DOMAIN x :
             Float64LessEq(Float64FromInt(v_one_coalitions[k]), x[k])
       /\ Float64Equal(Float64SumFrom(Float64FromInt(0), x),
                       Float64FromInt(v[GrandCoalition(cs)]))

(***************************************************************************)
(* WeightedVotingGame: null players.                                       *)
(***************************************************************************)
\* variant: the empty coalition is inserted into the game's own list
self_coalitions_after_null_players_no_copy(cs) == << <<>> >> \o cs

\* self._coalitions after null_players: the insert lands in the copy
self_coalitions_after_null_players(cs) == cs

\* WeightedVotingGame.null_players, the returned list
null_players(v, cs, ps) ==
    LET v0 == WithEmptyCoalition(v)
        local_coalitions == << <<>> >> \o cs
        is_null_player(i) ==
           ~\E k \in DOMAIN local_coalitions :
               /\ ~In(i, local_coalitions[k])
               /\ v0[SortedWith(local_coalitions[k], i)]
                     - v0[local_coalitions[k]] = 1
    IN SelectSeq(ps, is_null_player)

(***************************************************************************)
(* Power indices (indices/power_indices.py).                               *)
(***************************************************************************)
\* ShapleyShubikIndex.compute
ShapleyShubikIndex(v, cs, ps) ==
    LET n == Len(ps)
        factorial_n == Factorial(n)
    IN IF n = 1 THEN << FromInt(v[<<1>>]) >>
       ELSE [i \in DOMAIN ps |->
               FDiv(ShapleyTerms(v, n, ps[i], CoalitionsWithout(cs, ps[i])),
                    factorial_n)]

(***************************************************************************)
(* Inputs.                                                                 *)
(***************************************************************************)
SeqsUpTo(S, n) == UNION {[1..l -> S] : l \in 0..n}

\* games the repository's tests construct
TestPayoffs == { <<1, 2, 3, 2, 4, 5, 3>>, <<2, 4, 5, 18, 14, 9, 24>>,
                 <<1, 2, 3, 3, 4, 5, 6>>, <<42>> }

PayoffInputs == SeqsUpTo((0..MaxPayoff) \cup {-1}, MaxLen) \cup TestPayoffs

WeightInputs == SeqsUpTo((0..MaxWeight) \cup {-1}, MaxPlayers)

QuorumInputs == (0..MaxQuorum) \cup {-1}

NoResult == [type |-> "none"]

\* voting games the repository's tests construct: <<weights, quorum>>
TestVotingGames == { << <<1, 2, 3>>, 4 >>, << <<7, 3, 3>>, 10 >>,
                     << <<8, 4, 1>>, 10 >> }

Init ==
    /\ kind \in {"Game", "WeightedVotingGame"}
    /\ IF kind = "Game"
       THEN arg \in PayoffInputs /\ argQuorum = 0
       ELSE \/ arg \in WeightInputs /\ argQuorum \in QuorumInputs
            \/ \E g \in TestVotingGames : arg = g[1] /\ argQuorum = g[2]
    /\ phase = "new"
    /\ err = "none"
    /\ players = <<>>
    /\ coalitions = <<>>
    /\ contributions = <<>>
    /\ quorum = 0
    /\ op = "none"
    /\ opArg = <<>>
    /\ res = NoResult

(***************************************************************************)
(* Constructors.                                                           *)
(***************************************************************************)
Fail(msg) ==
    /\ phase' = "failed"
    /\ err' = msg
    /\ UNCHANGED <<kind, arg, argQuorum, quorum, op, opArg, res>>

\* Game.__init__
GameInit ==
    /\ phase = "new"
    /\ kind = "Game"
    /\ IF arg = <<>>
       THEN Fail("No contributions provided.")
            /\ UNCHANGED <<players, coalitions, contributions>>
       ELSE IF AnyNegative(arg)
       THEN Fail("Contributions have to be greater than or equal to 0.")
            /\ UNCHANGED <<players, coalitions, contributions>>
       ELSE IF Log2Exact(Len(arg) + 1) = -1
       THEN Fail("Invalid length of the contributions vector.")
            /\ UNCHANGED <<players, coalitions, contributions>>
       ELSE LET num_players == Log2Exact(Len(arg) + 1)
            IN /\ players' = PlayerList(num_players)
               /\ coalitions' = init_coalitions(PlayerList(num_players))
               /\ IF ~check_if_contributions_are_monotone(arg, num_players)
                  THEN Fail("Contributions have to grow monotone by coalition size.")
                       /\ UNCHANGED contributions
                  ELSE /\ contributions' = arg
                       /\ phase' = "constructed"
                       /\ UNCHANGED <<kind, arg, argQuorum, err, quorum,
                                      op, opArg, res>>

\* WeightedVotingGame.__init__
WeightedVotingGameInit ==
    /\ phase = "new"
    /\ kind = "WeightedVotingGame"
    /\ IF arg = <<>>
       THEN Fail("No contributions provided.")
            /\ UNCHANGED <<players, coalitions, contributions>>
       ELSE /\ players' = PlayerList(Len(arg))
            /\ coalitions' = init_coalitions(PlayerList(Len(arg)))
            /\ IF AnyNegative(arg)
               THEN Fail("Weight vector containns nonallowed negative weights.")
                    /\ UNCHANGED contributions
               ELSE IF argQuorum < 0
               THEN Fail("Qurom is only allowed to be greater than 0.")
                    /\ UNCHANGED contributions
               ELSE /\ contributions' = arg
                    /\ quorum' = argQuorum
                    /\ phase' = "constructed"
                    /\ UNCHANGED <<kind, arg, argQuorum, err, op, opArg, res>>

(***************************************************************************)
(* Queries.  A query leaves the game untouched and records its result.     *)
(***************************************************************************)
Return(name, a, r) ==
    /\ op' = name
    /\ opArg' = a
    /\ res' = r
    /\ UNCHANGED <<kind, arg, argQuorum, phase, err,
                   players, coalitions, contributions, quorum>>

\* the game exists and the caller is not holding the result of a call
Callable == phase = "constructed" /\ op = "none"

\* the caller drops the result of the last call; the game is as before
Discard ==
    /\ phase = "constructed"
    /\ op # "none"
    /\ Return("none", <<>>, NoResult)

\* Game.characteristic_function / WeightedVotingGame.characteristic_function
CharacteristicFunction ==
    /\ Callable
    /\ Return("characteristic_function", <<>>, [type |-> "map", value |-> V])

\* WeightedVotingGame.get_winning_coalitions
GetWinningCoalitions ==
    /\ Callable
    /\ kind = "WeightedVotingGame"
    /\ Return("get_winning_coalitions", <<>>,
              [type |-> "list",
               value |-> get_winning_coalitions(coalitions, contributions, quorum)])

\* vectors handed to the membership tests
XInputs == UNION {[1..l -> 0..MaxX] : l \in 1..MaxXLen}

\* Game.is_in_core
IsInCore ==
    /\ Callable
    /\ kind = "Game"
    /\ \E x \in XInputs :
          IF Len(x) # Len(players)
          THEN Return("is_in_core", x, Raised("ValueError"))
          ELSE Return("is_in_core", x,
                      [type |-> "bool", value |-> is_in_core(V, coalitions, x)])

\* Game.get_core_vertices
GetCoreVertices ==
    /\ Callable
    /\ kind = "Game"
    /\ IF Len(IntermediateCoalitions(coalitions, Len(players))) < Len(players)
       THEN Return("get_core_vertices", <<>>, Raised("IndexError"))
       ELSE IF CoreVertexResults(V, coalitions, players) = {}
       THEN Return("get_core_vertices", <<>>, Raised("NoLPSolution"))
       ELSE \E r \in CoreVertexResults(V, coalitions, players) :
               Return("get_core_vertices", <<>>, [type |-> "rows", value |-> r])

\* ShapleyValue().compute(game)
ComputeShapleyValue ==
    /\ Callable
    /\ kind = "Game"
    /\ Return("ShapleyValue", <<>>, Vector(ShapleyValue(V, coalitions, players)))

\* BanzhafValue().compute(game, normalized)
ComputeBanzhafValue ==
    /\ Callable
    /\ kind = "Game"
    /\ \E normalized \in BOOLEAN :
          Return("BanzhafValue", <<normalized>>,
                 Vector(BanzhafValue(V, coalitions, players, normalized)))

\* GatelyPoint().compute(game)
ComputeGatelyPoint ==
    /\ Callable
    /\ kind = "Game"
    /\ Return("GatelyPoint", <<>>, Vector(GatelyPoint(V, coalitions, players)))

\* TauValue().compute(game)
ComputeTauValue ==
    /\ Callable
    /\ kind = "Game"
    /\ Return("TauValue", <<>>, TauValue(V, coalitions, players))

\* Game.is_in_imputation_set
IsInImputationSet ==
    /\ Callable
    /\ kind = "Game"
    /\ \E x \in XInputs :
          IF Len(x) # Len(players)
          THEN Return("is_in_imputation_set", x, Raised("ValueError"))
          ELSE Return("is_in_imputation_set", x,
                      [type |-> "bool",
                       value |-> is_in_imputation_set(V, coalitions, x)])

\* Game.get_imputation_vertices
GetImputationVertices ==
    /\ Callable
    /\ kind = "Game"
    /\ Return("get_imputation_vertices", <<>>,
              [type |-> "rows",
               value |-> get_imputation_vertices(V, coalitions, players)])

\* Game.get_utopia_payoff_vector
GetUtopiaPayoffVector ==
    /\ Callable
    /\ kind = "Game"
    /\ Return("get_utopia_payoff_vector", <<>>,
              [type |-> "numbers",
               value |-> get_utopia_payoff_vector(V, coalitions, players)])

\* Game.get_minimal_rights_vector
GetMinimalRightsVector ==
    /\ Callable
    /\ kind = "Game"
    /\ Return("get_minimal_rights_vector", <<>>,
              [type |-> "numbers",
               value |-> get_minimal_rights_vector(V, coalitions, players)])

\* coalitions handed to get_marginal_contribution: those of the game, the
\* empty tuple and tuples naming a player the game does not have
CoalitionInputs ==
    Range(coalitions)
        \cup { <<>>, <<Len(players) + 1>>, <<1, Len(players) + 1>> }

\* players handed to get_marginal_contribution (0 and n + 1 are no player ids)
PlayerInputs == 0..(Len(players) + 1)

\* Game.get_marginal_contribution
GetMarginalContribution ==
    /\ Callable
    /\ kind = "Game"
    /\ \E coalition \in CoalitionInputs, player \in PlayerInputs :
          Return("get_marginal_contribution", <<coalition, player>>,
                 get_marginal_contribution(V, coalition, player))

\* WeightedVotingGame.get_minimal_winning_coalitions
GetMinimalWinningCoalitions ==
    /\ Callable
    /\ kind = "WeightedVotingGame"
    /\ Return("get_minimal_winning_coalitions", <<>>,
              [type |-> "list",
               value |-> get_minimal_winning_coalitions(coalitions,
                                                        contributions, quorum)])

\* WeightedVotingGame.preferred_player
PreferredPlayer ==
    /\ Callable
    /\ kind = "WeightedVotingGame"
    /\ \E i \in PlayerInputs, j \in PlayerInputs, prefer_by_weight \in BOOLEAN :
          IF ~In(i, players) \/ ~In(j, players)
          THEN Return("preferred_player", <<i, j, prefer_by_weight>>,
                      Raised("ValueError"))
          ELSE Return("preferred_player", <<i, j, prefer_by_weight>>,
                      [type |-> "player",
                       value |-> preferred_player(coalitions, contributions,
                                                  quorum, i, j,
                                                  prefer_by_weight)])

\* WeightedVotingGame.get_shift_winning_coalitions
GetShiftWinningCoalitions ==
    /\ Callable
    /\ kind = "WeightedVotingGame"
    /\ Return("get_shift_winning_coalitions", <<>>,
              [type |-> "list",
               value |-> get_shift_winning_coalitions(coalitions,
                                                      contributions, quorum)])

\* Game.is_convex
IsConvex ==
    /\ Callable
    /\ kind = "Game"
    /\ Return("is_convex", <<>>,
              [type |-> "bool", value |-> is_convex(V, coalitions)])

\* Game.is_additive
IsAdditive ==
    /\ Callable
    /\ kind = "Game"
    /\ Return("is_additive", <<>>,
              [type |-> "bool", value |-> is_additive(V, coalitions)])

\* game.is_in_imputation_set(ShapleyValue().compute(game))
ShapleyValueInImputationSet ==
    /\ Callable
    /\ kind = "Game"
    /\ Return("is_in_imputation_set(ShapleyValue)", <<>>,
              [type |-> "bool",
               value |-> is_in_imputation_set_float64(
                            V, coalitions,
                            ShapleyValueFloat64(V, coalitions, players))])

\* WeightedVotingGame.null_players
NullPlayers ==
    /\ Callable
    /\ kind = "WeightedVotingGame"
    /\ op' = "null_players"
    /\ opArg' = <<>>
    /\ res' = [type |-> "list", value |-> null_players(V, coalitions, players)]
    /\ coalitions' = self_coalitions_after_null_players(coalitions)
    /\ UNCHANGED <<kind, arg, argQuorum, phase, err,
                   players, contributions, quorum>>

\* ShapleyShubikIndex().compute(game)
ComputeShapleyShubikIndex ==
    /\ Callable
    /\ kind = "WeightedVotingGame"
    /\ Return("ShapleyShubikIndex", <<>>,
              Vector(ShapleyShubikIndex(V, coalitions, players)))

(***************************************************************************)
(* Properties.                                                             *)
(***************************************************************************)
StrictlyAscending(c) == \A a, b \in DOMAIN c : a < b => c[a] < c[b]

\* c comes before d in lexicographic order (equal lengths)
LexLess(c, d) ==
    \E k \in DOMAIN c : c[k] < d[k] /\ \A h \in 1..(k - 1) : c[h] = d[h]

RECURSIVE SetSum(_, _)
SetSum(S, f) ==
    IF S = {} THEN 0
    ELSE LET x == CHOOSE y \in S : TRUE IN f[x] + SetSum(S \ {x}, f)

IsPowerOfTwo(k) == \E e \in 0..k : 2^e = k

\* C1: every constructed game with n >= 1 players lists exactly the 2^n - 1
\* non-empty subsets of {1..n}, each once, each strictly ascending, ordered by
\* size and lexicographically within a size; the first n entries are the
\* singletons (1,)..(n,) and the last entry is the grand coalition.
C1_CoalitionUniverse ==
    phase = "constructed" =>
        LET n == Len(players)
        IN /\ n >= 1
           /\ players = [i \in 1..n |-> i]
           /\ Len(coalitions) = 2^n - 1
           /\ \A k \in DOMAIN coalitions : StrictlyAscending(coalitions[k])
           /\ {Range(coalitions[k]) : k \in DOMAIN coalitions}
                 = (SUBSET (1..n)) \ {{}}
           /\ \A k, l \in DOMAIN coalitions :
                 k < l =>
                    \/ Len(coalitions[k]) < Len(coalitions[l])
                    \/ /\ Len(coalitions[k]) = Len(coalitions[l])
                       /\ LexLess(coalitions[k], coalitions[l])
           /\ \A i \in 1..n : coalitions[i] = <<i>>
           /\ coalitions[Len(coalitions)] = [i \in 1..n |-> i]

C1_Witness ==
    /\ phase = "constructed"
    /\ Len(players) = 3
    /\ Len(coalitions) = 7

\* C2: for a constructed TU game characteristic_function() is a mapping whose
\* key set is the coalition list and which maps the k-th coalition to the k-th
\* entry of the payoff vector.
C2_CharacteristicFunctionTable ==
    (kind = "Game" /\ op = "characteristic_function") =>
        /\ DOMAIN res.value = Range(coalitions)
        /\ Len(arg) = Len(coalitions)
        /\ \A k \in DOMAIN coalitions : res.value[coalitions[k]] = arg[k]

C2_Witness ==
    /\ kind = "Game"
    /\ op = "characteristic_function"
    /\ Len(players) = 3
    /\ arg[1] # arg[4]
    /\ arg[4] # arg[7]

InvalidInputErrors ==
    { "No contributions provided.",
      "Contributions have to be greater than or equal to 0.",
      "Invalid length of the contributions vector.",
      "Contributions have to grow monotone by coalition size." }

\* C3: constructing a TU game fails with an invalid-input error, and no game
\* is ever queried, when the payoff vector is empty, holds a negative payoff
\* or has a length L with L + 1 not a power of two; a constructed game of a
\* vector of length 2^n - 1 has exactly the players 1..n.
C3_ConstructionRejectsInvalidInput ==
    kind = "Game" =>
        /\ ( /\ phase # "new"
             /\ \/ arg = <<>>
                \/ \E k \in DOMAIN arg : arg[k] < 0
                \/ ~IsPowerOfTwo(Len(arg) + 1) )
           => /\ phase = "failed"
              /\ err \in InvalidInputErrors
              /\ op = "none"
              /\ res = NoResult
        /\ phase = "constructed" =>
              \E n \in 1..Len(arg) :
                 /\ Len(arg) = 2^n - 1
                 /\ players = [i \in 1..n |-> i]

C3_Witness ==
    /\ kind = "Game"
    /\ phase = "failed"
    /\ Len(arg) = 7
    /\ arg[7] < 0
    /\ \A k \in 1..6 : arg[k] >= 0

\* the positions of the payoffs of the coalitions of size k, n players:
\* the consecutive block after all smaller coalitions
SizeBlock(n, k) ==
    LET before == Cardinality({S \in SUBSET (1..n) :
                                  Cardinality(S) > 0 /\ Cardinality(S) < k})
        count == Cardinality({S \in SUBSET (1..n) : Cardinality(S) = k})
    IN (before + 1)..(before + count)

BlockMax(payoffs, n, k) == SetMax({payoffs[x] : x \in SizeBlock(n, k)})

PositionIn(cs, c) == CHOOSE k \in DOMAIN cs : cs[k] = c

\* C5: in a weighted voting game characteristic_function() maps each coalition
\* to 1 if its members' weights sum to at least the quorum and to 0 otherwise,
\* and get_winning_coalitions() lists exactly the coalitions of value 1 in
\* universe order.
C5_WeightedVotingValues ==
    (kind = "WeightedVotingGame" /\ phase = "constructed") =>
        LET wins(c) == SetSum(Range(c), contributions) >= quorum
        IN /\ \A k \in DOMAIN contributions : contributions[k] >= 0
           /\ quorum >= 0
           /\ op = "characteristic_function" =>
                 /\ DOMAIN res.value = Range(coalitions)
                 /\ \A c \in Range(coalitions) :
                       res.value[c] = IF wins(c) THEN 1 ELSE 0
           /\ op = "get_winning_coalitions" =>
                 /\ Range(res.value) = {c \in Range(coalitions) : wins(c)}
                 /\ \A a, b \in DOMAIN res.value :
                       a < b => PositionIn(coalitions, res.value[a])
                                   < PositionIn(coalitions, res.value[b])

C5_Witness ==
    /\ kind = "WeightedVotingGame"
    /\ op = "get_winning_coalitions"
    /\ contributions = <<1, 2, 2>>
    /\ quorum = 3
    /\ res.value = << <<1, 2>>, <<1, 3>>, <<2, 3>>, <<1, 2, 3>> >>


\* the payoff of the grand coalition, read off the constructor argument
GrandPayoff == arg[Len(arg)]

\* the payoff the constructor argument gives to the set S of players
PayoffOf(S) == arg[CHOOSE k \in DOMAIN coalitions : Range(coalitions[k]) = S]

\* C6: is_in_core(x) returns true only for vectors x of the core, that is
\* with sum(x) = v(N) and, for every coalition S, sum of x_i over S >= v(S).
C6_IsInCoreOnlyCoreVectors ==
    (op = "is_in_core" /\ res.type = "bool" /\ res.value = TRUE) =>
        /\ SumSeq(opArg) = GrandPayoff
        /\ \A S \in (SUBSET (1..Len(players))) \ {{}} :
              SetSum(S, opArg) >= PayoffOf(S)

\* C7: for the payoff vector [2,4,5,18,14,9,24] get_core_vertices() returns
\* exactly the vertices [8,10,6], [9,10,5], [14,4,6], [15,4,5], each once.
C7_CoreVerticesExample ==
    (arg = <<2, 4, 5, 18, 14, 9, 24>> /\ op = "get_core_vertices") =>
        /\ res.type = "rows"
        /\ Len(res.value) = 4
        /\ Range(res.value)
              = { <<8, 10, 6>>, <<9, 10, 5>>, <<14, 4, 6>>, <<15, 4, 5>> }

C7_Witness ==
    /\ arg = <<2, 4, 5, 18, 14, 9, 24>>
    /\ op = "get_core_vertices"
    /\ res.value = << <<8, 10, 6>>, <<9, 10, 5>>, <<14, 4, 6>>, <<15, 4, 5>> >>

\* C8: the Shapley value vector of a valid TU game is efficient: its
\* components sum to v(N); the n!-scaled numerators sum to n! * v(N).
C8_ShapleyEfficient ==
    op = "ShapleyValue" =>
        LET n == Len(players)
        IN /\ n >= 1
           /\ Len(res.value) = n
           /\ \A i \in 1..n : res.value[i][2] = Factorial(n)
           /\ SumSeq([i \in 1..n |-> res.value[i][1]]) = Factorial(n) * GrandPayoff
           /\ FEqualsInt(FSum(res.value), GrandPayoff)

C8_Witness ==
    /\ op = "ShapleyValue"
    /\ arg = <<2, 4, 5, 18, 14, 9, 24>>
    /\ res.value = << <<57, 6>>, <<48, 6>>, <<39, 6>> >>

\* C9: for a valid TU game with n >= 2 players the vector TauValue.compute
\* returns is Pareto-efficient: its components sum to v(N).
C9_TauEfficient ==
    (op = "TauValue" /\ Len(players) >= 2 /\ res.type = "vector") =>
        FEqualsInt(FSum(res.value), GrandPayoff)

\* C10: for a 1-player TU game with payoff v >= 0 each value calculator
\* (Shapley, Banzhaf normalized and absolute, Gately, Tau) returns exactly [v]
\* without dividing by zero.
C10_SinglePlayerValues ==
    ( /\ kind = "Game"
      /\ Len(players) = 1
      /\ op \in {"ShapleyValue", "BanzhafValue", "GatelyPoint", "TauValue"} )
    => /\ res.type = "vector"
       /\ Len(res.value) = 1
       /\ FEqualsInt(res.value[1], arg[1])


\* C11: the normalized Banzhaf value vector of a valid TU game sums to v(N).
C11_NormalizedBanzhafEfficient ==
    (op = "BanzhafValue" /\ opArg = <<TRUE>>) =>
        /\ Len(res.value) = Len(players)
        /\ FEqualsInt(FSum(res.value), GrandPayoff)

\* the payoff the constructor argument gives to the set S, 0 for the empty set
PayoffOrZero(S) == IF S = {} THEN 0 ELSE PayoffOf(S)

\* C12: is_in_imputation_set(x) fails with the invalid-argument error when
\* len(x) differs from the number of players, and otherwise returns true iff
\* x_i >= v({i}) for every player i and sum(x) = v(N).
C12_ImputationMembership ==
    op = "is_in_imputation_set" =>
        LET n == Len(players)
            x == opArg
        IN IF Len(x) # n
           THEN res = Raised("ValueError")
           ELSE /\ res.type = "bool"
                /\ res.value <=> ( /\ \A i \in 1..n : x[i] >= PayoffOf({i})
                                   /\ SetSum(1..n, x) = GrandPayoff )

C12_Witness ==
    /\ op = "is_in_imputation_set"
    /\ Len(players) = 3
    /\ res = [type |-> "bool", value |-> TRUE]
    /\ opArg[1] > arg[1]

\* the vector giving player i the upper bound v(N) - sum of the other
\* singleton payoffs and every other player his singleton payoff
ImputationVertex(i) ==
    [j \in 1..Len(players) |->
        IF j = i
        THEN GrandPayoff - SetSum((1..Len(players)) \ {i}, arg)
        ELSE arg[j]]

C14_UtopiaPayoff ==
    op = "get_utopia_payoff_vector" =>
        LET n == Len(players)
        IN /\ Len(res.value) = n
           /\ \A i \in 1..n :
                 res.value[i] = GrandPayoff - PayoffOrZero((1..n) \ {i})
           /\ n = 1 => res.value = <<GrandPayoff>>

C14_Witness ==
    /\ op = "get_utopia_payoff_vector"
    /\ arg = <<2, 4, 5, 18, 14, 9, 24>>
    /\ res.value = <<15, 10, 6>>

\* C15: get_minimal_rights_vector() returns, for every player i, the maximum
\* over the coalitions S containing i of v(S) minus the utopia payoffs of the
\* other members of S.
C15_MinimalRights ==
    op = "get_minimal_rights_vector" =>
        LET n == Len(players)
            M == [j \in 1..n |-> GrandPayoff - PayoffOrZero((1..n) \ {j})]
        IN /\ Len(res.value) = n
           /\ \A i \in 1..n :
                 res.value[i] =
                    SetMax({PayoffOf(S) - SetSum(S \ {i}, M) :
                               S \in {T \in SUBSET (1..n) : i \in T}})

C15_Witness ==
    /\ op = "get_minimal_rights_vector"
    /\ arg = <<2, 4, 5, 18, 14, 9, 24>>
    /\ res.value = <<8, 4, 5>>

\* C16: get_marginal_contribution(coalition, player) fails with the
\* invalid-argument error whenever the coalition is empty, the player is no
\* player id of the game or the player is no member of the coalition.
C16_MarginalContributionRejects ==
    op = "get_marginal_contribution" =>
        LET coalition == opArg[1]
            player == opArg[2]
        IN ( \/ coalition = <<>>
             \/ player \notin 1..Len(players)
             \/ ~In(player, coalition) )
           => res = Raised("ValueError")

\* C17: for a TU game with n >= 2 players whose utopia payoffs and singleton
\* payoffs have the same sum, GatelyPoint.compute fails with an error or
\* returns the vector of singleton payoffs.
C17_GatelyZeroDenominator ==
    ( /\ op = "GatelyPoint"
      /\ Len(players) >= 2
      /\ SetSum(1..Len(players),
                [j \in 1..Len(players) |->
                    GrandPayoff - PayoffOrZero((1..Len(players)) \ {j})])
           = SetSum(1..Len(players), arg) )
    => \/ res.type = "error"
       \/ /\ res.type = "vector"
          /\ \A i \in 1..Len(players) : FEqualsInt(res.value[i], arg[i])

\* the winning coalitions all of whose members are pivot, from the weights
MinimalWinningSet ==
    {c \in Range(coalitions) :
        /\ SetSum(Range(c), contributions) >= quorum
        /\ \A p \in Range(c) :
              SetSum(Range(c), contributions) - contributions[p] < quorum}

\* the list lists coalitions in the order of the list whole, none twice
SubListOf(list, whole) ==
    /\ Range(list) \subseteq Range(whole)
    /\ \A a, b \in DOMAIN list :
          a < b => PositionIn(whole, list[a]) < PositionIn(whole, list[b])

\* C18: get_minimal_winning_coalitions() returns, in universe order, exactly
\* the winning coalitions in which every member p is a pivot player, that is
\* weight(C) - weight(p) < quorum for all p in C; weights [1,2,3] with quorum
\* 4 give [(1,3),(2,3)].
C18_MinimalWinningCoalitions ==
    (op = "get_minimal_winning_coalitions") =>
        /\ Range(res.value) = MinimalWinningSet
        /\ SubListOf(res.value, coalitions)
        /\ (contributions = <<1, 2, 3>> /\ quorum = 4) =>
              res.value = << <<1, 3>>, <<2, 3>> >>

C18_Witness ==
    /\ op = "get_minimal_winning_coalitions"
    /\ contributions = <<1, 2, 3>>
    /\ quorum = 4
    /\ res.value = << <<1, 3>>, <<2, 3>> >>

\* C19: preferred_player is symmetric in its two player arguments: for all
\* players i, j of a weighted voting game preferred_player(i, j) and
\* preferred_player(j, i) return the same result, the same player or no
\* preference in both calls.
C19_PreferredPlayerSymmetric ==
    (op = "preferred_player" /\ res.type = "player") =>
        res.value = preferred_player(coalitions, contributions, quorum,
                                     opArg[2], opArg[1], opArg[3])

C19_Witness ==
    /\ op = "preferred_player"
    /\ contributions = <<8, 4, 1>>
    /\ quorum = 10
    /\ opArg[1] = 3 /\ opArg[2] = 1 /\ opArg[3]
    /\ res.type = "player"
    /\ res.value = 1

\* C20: get_shift_winning_coalitions() returns exactly those minimal winning
\* coalitions S for which no member i of S and non-member j with
\* preferred_player(i, j) = i make (S without i) plus j a minimal winning
\* coalition again; the result is a sub-list of the minimal winning
\* coalitions in their order; weights [1,2,3] with quorum 4 give [(1,3)].
C20_ShiftMinimalWinningCoalitions ==
    (op = "get_shift_winning_coalitions") =>
        /\ Range(res.value) =
              {S \in MinimalWinningSet :
                  ~\E i \in Range(S) :
                      \E j \in (1..Len(players)) \ Range(S) :
                         /\ preferred_player(coalitions, contributions,
                                             quorum, i, j, TRUE) = i
                         /\ SortedSeq((Range(S) \ {i}) \cup {j})
                               \in MinimalWinningSet}
        /\ SubListOf(res.value,
                     get_minimal_winning_coalitions(coalitions, contributions,
                                                    quorum))
        /\ (contributions = <<1, 2, 3>> /\ quorum = 4) =>
              res.value = << <<1, 3>> >>

C20_Witness ==
    /\ op = "get_shift_winning_coalitions"
    /\ contributions = <<1, 2, 3>>
    /\ quorum = 4
    /\ res.value = << <<1, 3>> >>

\* the non-empty sets of players of the constructed game
PlayerSets == (SUBSET (1..Len(players))) \ {{}}

\* C21: is_convex() returns true if and only if v(C union D) + v(C intersect
\* D) >= v(C) + v(D) holds for all pairs of coalitions C, D of the universe,
\* C = D included, with v of the empty coalition taken as 0.
C21_IsConvex ==
    op = "is_convex" =>
        res.value = (\A C, D \in PlayerSets :
                        PayoffOf(C \cup D) + PayoffOrZero(C \cap D)
                           >= PayoffOf(C) + PayoffOf(D))

C21_Witness ==
    /\ op = "is_convex"
    /\ Len(players) = 3
    /\ res.value = FALSE
    /\ \E C, D \in PlayerSets :
          /\ C \cap D = {}
          /\ PayoffOf(C \cup D) < PayoffOf(C) + PayoffOf(D)

\* C22: is_additive() returns true if and only if v(C union D) = v(C) + v(D)
\* holds for all pairs of disjoint coalitions C, D of the universe.
C22_IsAdditive ==
    op = "is_additive" =>
        res.value = (\A C, D \in PlayerSets :
                        C \cap D = {} =>
                           PayoffOf(C \cup D) = PayoffOf(C) + PayoffOf(D))

C22_Witness ==
    /\ op = "is_additive"
    /\ arg = <<1, 2, 3, 3, 4, 5, 6>>
    /\ res.value = TRUE

\* v(S union T) >= v(S) + v(T) for all disjoint coalitions S, T
Superadditive ==
    \A S, T \in PlayerSets :
        S \cap T = {} => PayoffOf(S \cup T) >= PayoffOf(S) + PayoffOf(T)

\* C23: for every valid superadditive TU game the Shapley value vector x
\* passes is_in_imputation_set: the call on the computed vector returns true.
C23_ShapleyInImputationSet ==
    (op = "is_in_imputation_set(ShapleyValue)" /\ Superadditive) =>
        res.value = TRUE

\* the game a constructor builds from the arguments of the explored call
FreshPlayers ==
    PlayerList(IF kind = "Game" THEN Log2Exact(Len(arg) + 1) ELSE Len(arg))

FreshCoalitions == init_coalitions(FreshPlayers)

FreshV ==
    IF kind = "Game" THEN TUCharacteristicFunction(FreshCoalitions, arg)
    ELSE WVGCharacteristicFunction(FreshCoalitions, arg, argQuorum)

\* C24: no query or calculator changes the game's players, coalitions,
\* payoffs/weights or quorum, the ones working on a local copy with an added
\* empty coalition included; after any sequence of calls a call returns what
\* it returns on the freshly constructed game.
C24_QueriesLeaveGameUnchanged ==
    phase = "constructed" =>
        /\ players = FreshPlayers
        /\ coalitions = FreshCoalitions
        /\ contributions = arg
        /\ kind = "WeightedVotingGame" => quorum = argQuorum
        /\ op = "characteristic_function" => res.value = FreshV
        /\ op = "is_convex" => res.value = is_convex(FreshV, FreshCoalitions)
        /\ op = "is_additive" => res.value = is_additive(FreshV, FreshCoalitions)
        /\ op = "null_players" =>
              res.value = null_players(FreshV, FreshCoalitions, FreshPlayers)
        /\ op = "get_minimal_winning_coalitions" =>
              res.value = get_minimal_winning_coalitions(FreshCoalitions, arg,
                                                         argQuorum)
        /\ op = "get_shift_winning_coalitions" =>
              res.value = get_shift_winning_coalitions(FreshCoalitions, arg,
                                                       argQuorum)
        /\ op = "get_utopia_payoff_vector" =>
              res.value = get_utopia_payoff_vector(FreshV, FreshCoalitions,
                                                   FreshPlayers)
        /\ op = "ShapleyValue" =>
              res.value = ShapleyValue(FreshV, FreshCoalitions, FreshPlayers)

C24_Witness ==
    /\ op = "null_players"
    /\ arg = <<1, 1, 0>>
    /\ argQuorum = 1
    /\ res.value = <<3>>
    /\ coalitions[1] = <<1>>

\* the players occurring in the pivot list of some winning coalition
PivotSomewhere ==
    LET items == get_pivot_players(coalitions, contributions, quorum)
    IN {i \in Range(players) : \E k \in DOMAIN items : In(i, items[k][2])}

\* C27: in a weighted voting game a player i is listed by null_players() if
\* and only if i is in the pivot list of no winning coalition returned by
\* get_pivot_players().
C27_NullPlayersNeverPivot ==
    op = "null_players" =>
        Range(res.value) = Range(players) \ PivotSomewhere

\* the sets of players of size strictly between 1 and n
IntermediateSets ==
    {S \in PlayerSets : 1 < Cardinality(S) /\ Cardinality(S) < Len(players)}

\* C25: in get_core_vertices the system A_ub * x <= b_ub handed to the LP
\* primitive is satisfied by a payoff vector x if and only if the sum of x_i
\* over S is >= v(S) for every intermediate coalition S (1 < |S| < n).
C25_CoreInequalities ==
    op = "get_core_vertices" =>
        LET n == Len(players)
            A_ub == CoreA_ub(coalitions, n)
            b_ub == CoreB_ub(V, coalitions, n)
        IN \A x \in [1..n -> 0..MaxX] :
              (\A r \in DOMAIN A_ub : DotProduct(A_ub[r], x) <= b_ub[r])
                 <=> (\A S \in IntermediateSets : SetSum(S, x) >= PayoffOf(S))

\* C26: TauValue.compute returns a finite payoff vector for every valid TU
\* game with n >= 2 players, the cases sum(m) = sum(M), sum(m) = 0 and
\* sum(M) = 0 included: no division by zero, no singular equation for alpha.
C26_TauValueFinite ==
    (op = "TauValue" /\ Len(players) >= 2) =>
        /\ res.type = "vector"
        /\ \A i \in DOMAIN res.value : Finite(res.value[i])

\* v of a set of players of the voting game, 0 for the empty set
VotingValue(S) ==
    IF S # {} /\ SetSum(S, contributions) >= quorum THEN 1 ELSE 0

\* n! times the Shapley-Shubik index of player j as the formula defines it
ShapleyShubikNumerator(j) ==
    LET n == Len(players)
        term == [C \in SUBSET ((1..n) \ {j}) |->
                   Factorial(Cardinality(C)) * Factorial(n - Cardinality(C) - 1)
                      * (VotingValue(C \cup {j}) - VotingValue(C))]
    IN SetSum(SUBSET ((1..n) \ {j}), term)

\* C28: ShapleyShubikIndex.compute returns for every player j the sum over
\* all subsets C of N without j, the empty subset included with v(empty) = 0,
\* of |C|! * (n - |C| - 1)! * (v(C plus j) - v(C)), divided by n!; the
\* indices sum to v(N).
C28_ShapleyShubikIndex ==
    op = "ShapleyShubikIndex" =>
        LET n == Len(players)
        IN /\ \A j \in 1..n :
                 res.value[j][1] * Factorial(n)
                    = ShapleyShubikNumerator(j) * res.value[j][2]
           /\ FEqualsInt(FSum(res.value), VotingValue(1..n))

C30_CoreVerticesNeedIntermediateCoalitions ==
    op = "get_core_vertices" =>
        /\ (Len(players) \in {1, 2}) <=> (res = Raised("IndexError"))
        /\ coalitions = FreshCoalitions
        /\ contributions = arg

C30_Witness ==
    /\ op = "get_core_vertices"
    /\ Len(players) = 2
    /\ res = Raised("IndexError")
    /\ coalitions = << <<1>>, <<2>>, <<1, 2>> >>

Next ==
    \/ GameInit
    \/ WeightedVotingGameInit
    \/ CharacteristicFunction
    \/ GetWinningCoalitions
    \/ IsInCore
    \/ GetCoreVertices
    \/ ComputeShapleyValue
    \/ ComputeBanzhafValue
    \/ ComputeGatelyPoint
    \/ ComputeTauValue
    \/ IsInImputationSet
    \/ GetImputationVertices
    \/ GetUtopiaPayoffVector
    \/ GetMinimalRightsVector
    \/ GetMarginalContribution
    \/ GetMinimalWinningCoalitions
    \/ PreferredPlayer
    \/ GetShiftWinningCoalitions
    \/ IsConvex
    \/ IsAdditive
    \/ ShapleyValueInImputationSet
    \/ NullPlayers
    \/ ComputeShapleyShubikIndex
    \/ Discard

Spec == Init /\ [][Next]_vars

====
